---- MODULE Spec2Model ----
(***************************************************************************)
(* A model of pythran/optimizations.py: the tree rewriting passes          *)
(* ConstantFolding, LoopFullUnrolling, ForwardSubstitution (_LazyRemover)  *)
(* and DeadCodeElimination, over a small Python syntax tree.               *)
(*                                                                         *)
(* A syntax node is a record with a "type", an "id" (the node's identity:  *)
(* Python compares ast nodes by identity, and the analyses are keyed by    *)
(* it) and the fields of that node type.  A field that holds a list of     *)
(* nodes is a sequence; a field that holds one node holds a record; an     *)
(* attribute that is absent (None, or deleted by NodeTransformer) holds    *)
(* NoneNode.                                                               *)
(***************************************************************************)
EXTENDS Integers, Sequences, FiniteSets

VARIABLES
    pc,                   \* position of the driver: "run", "done", ...
    original,             \* the tree handed to the pass (kept for comparison)
    node,                 \* the tree the pass works on / returns
    raised,               \* an exception left the pass
    used_def_chain,       \* UsedDefChain: name -> occurrences [id, action, ctx]
    pure_expressions,     \* PureExpressions: set of node ids
    constant_expressions, \* ConstantExpressions: set of node ids
    lazyness_analysis,    \* LazynessAnalysis: name -> 1, 2, ... or Inf
    literals,             \* Literals: set of names
    names,                \* names of used_def_chain still to iterate over
    log                   \* what the driver recorded about the steps it took

vars == <<pc, original, node, raised, used_def_chain, pure_expressions,
          constant_expressions, lazyness_analysis, literals, names, log>>

-----------------------------------------------------------------------------
(* Syntax trees                                                            *)

NoneNode == [type |-> "None"]

IsNone(n) == n.type = "None"

\* The child fields of each node type, in the order of ast's _fields.
Fields(t) ==
    CASE t = "FunctionDef" -> <<"args", "body">>
      [] t = "For"         -> <<"target", "iter", "body", "orelse">>
      [] t = "If"          -> <<"test", "body", "orelse">>
      [] t = "Assign"      -> <<"targets", "value">>
      [] t = "AugAssign"   -> <<"target", "value">>
      [] t = "Print"       -> <<"values">>
      [] t = "Expr"        -> <<"value">>
      [] t = "Return"      -> <<"value">>
      [] t = "Yield"       -> <<"value">>
      [] t = "BinOp"       -> <<"left", "right">>
      [] t = "Call"        -> <<"func", "args">>
      [] t = "Attribute"   -> <<"value">>
      [] t = "Subscript"   -> <<"value", "slice">>
      [] t = "Index"       -> <<"value">>
      [] t = "List"        -> <<"elts">>
      [] t = "Tuple"       -> <<"elts">>
      [] t = "Set"         -> <<"elts">>
      [] t = "Dict"        -> <<"keys", "values">>
      [] OTHER             -> <<>>

\* The fields that hold a list of nodes; every other field holds one node.
IsListField(f) ==
    f \in {"args", "body", "orelse", "targets", "values", "elts", "keys"}

\* Constructors; ids are given afterwards by Label.
Num(n) == [type |-> "Num", id |-> <<>>, n |-> n]
Str(s) == [type |-> "Str", id |-> <<>>, s |-> s]
Name(x, ctx) == [type |-> "Name", id |-> <<>>, name |-> x, ctx |-> ctx]
Attribute(v, attr) == [type |-> "Attribute", id |-> <<>>, value |-> v, attr |-> attr]
List(elts) == [type |-> "List", id |-> <<>>, elts |-> elts]
Tuple(elts) == [type |-> "Tuple", id |-> <<>>, elts |-> elts]
SetLit(elts) == [type |-> "Set", id |-> <<>>, elts |-> elts]
Dict(keys, values) == [type |-> "Dict", id |-> <<>>, keys |-> keys, values |-> values]
BinOp(left, op, right) ==
    [type |-> "BinOp", id |-> <<>>, op |-> op, left |-> left, right |-> right]
Call(func, args) == [type |-> "Call", id |-> <<>>, func |-> func, args |-> args]
Subscript(v, s) == [type |-> "Subscript", id |-> <<>>, value |-> v, slice |-> s]
Index(v) == [type |-> "Index", id |-> <<>>, value |-> v]
Yield(v) == [type |-> "Yield", id |-> <<>>, value |-> v]
Assign(targets, value) ==
    [type |-> "Assign", id |-> <<>>, targets |-> targets, value |-> value]
AugAssign(target, op, value) ==
    [type |-> "AugAssign", id |-> <<>>, op |-> op, target |-> target, value |-> value]
Expr(value) == [type |-> "Expr", id |-> <<>>, value |-> value]
PrintStmt(values) == [type |-> "Print", id |-> <<>>, values |-> values]
Return(value) == [type |-> "Return", id |-> <<>>, value |-> value]
Pass(id) == [type |-> "Pass", id |-> id]
Break == [type |-> "Break", id |-> <<>>]
Continue == [type |-> "Continue", id |-> <<>>]
\* metadata: the directives attached to the node (metadata.get reads them
\* from the node, so a copy of the node carries them too).
For(target, iter, body, orelse) ==
    [type |-> "For", id |-> <<>>, target |-> target, iter |-> iter,
     body |-> body, orelse |-> orelse, metadata |-> {}]
ForOMP(target, iter, body, orelse) ==
    [type |-> "For", id |-> <<>>, target |-> target, iter |-> iter,
     body |-> body, orelse |-> orelse, metadata |-> {"OMPDirective"}]
If(test, body, orelse) ==
    [type |-> "If", id |-> <<>>, test |-> test, body |-> body, orelse |-> orelse]
FunctionDef(args, body) ==
    [type |-> "FunctionDef", id |-> <<>>, args |-> args, body |-> body]

\* The concatenation of a sequence of sequences (list.__add__ over a list
\* of lists, list.extend in a loop).
RECURSIVE FlattenRange(_, _, _)
FlattenRange(ss, lo, hi) ==
    IF lo > hi THEN <<>>
    ELSE IF lo = hi THEN ss[lo]
    ELSE LET mid == (lo + hi) \div 2
         IN  FlattenRange(ss, lo, mid) \o FlattenRange(ss, mid + 1, hi)

Flatten(ss) == FlattenRange(ss, 1, Len(ss))

\* Label(n, id): n with identity id, and every descendant with an identity
\* of its own: the parent's, then the field's position, then the position
\* in the field's list.
RECURSIVE Label(_, _)
RECURSIVE LabelFields(_, _, _)
RECURSIVE LabelList(_, _)

LabelList(s, id) == [k \in 1..Len(s) |-> Label(s[k], id \o <<k>>)]

LabelFields(n, fs, k) ==
    IF k > Len(fs) THEN n
    ELSE LET f == fs[k]
             m == IF IsListField(f)
                  THEN [n EXCEPT ![f] = LabelList(n[f], n.id \o <<k>>)]
                  ELSE [n EXCEPT ![f] = Label(n[f], n.id \o <<k>>)]
         IN  LabelFields(m, fs, k + 1)

Label(n, id) ==
    IF IsNone(n) THEN n
    ELSE LabelFields([n EXCEPT !.id = id], Fields(n.type), 1)

\* Every node of a tree, as a sequence in document order (ast.walk order is
\* not needed: the order only fixes which position a node is found at).
RECURSIVE Nodes(_)
RECURSIVE NodesOfFields(_, _, _)
RECURSIVE NodesOfList(_)

NodesOfList(s) == Flatten([k \in 1..Len(s) |-> Nodes(s[k])])

NodesOfFields(n, fs, k) ==
    IF k > Len(fs) THEN <<>>
    ELSE (IF IsListField(fs[k]) THEN NodesOfList(n[fs[k]]) ELSE Nodes(n[fs[k]]))
         \o NodesOfFields(n, fs, k + 1)

Nodes(n) ==
    IF IsNone(n) THEN <<>> ELSE <<n>> \o NodesOfFields(n, Fields(n.type), 1)

NodeSet(n) == LET ns == Nodes(n) IN {ns[i] : i \in 1..Len(ns)}

Ids(n) == {m.id : m \in NodeSet(n)}

\* The node of tree n whose identity is id (NoneNode when there is none).
NodeAt(n, id) ==
    IF id \in Ids(n) THEN CHOOSE m \in NodeSet(n) : m.id = id ELSE NoneNode

Range(s) == {s[i] : i \in 1..Len(s)}

\* filter(pred, s) for a predicate given as the set of the elements it keeps.
RECURSIVE Filter(_, _)
Filter(s, keep) ==
    IF s = <<>> THEN <<>>
    ELSE (IF Head(s) \in keep THEN <<Head(s)>> ELSE <<>>) \o Filter(Tail(s), keep)

\* The statement lists of a tree: <<owner id, field>> for every body and
\* orelse of the tree.
BlockFields(n) ==
    CASE n.type = "FunctionDef" -> {"body"}
      [] n.type \in {"For", "If"} -> {"body", "orelse"}
      [] OTHER -> {}

Blocks(n) == UNION {{<<m.id, f>> : f \in BlockFields(m)} : m \in NodeSet(n)}

\* Every statement of a tree: the elements of its statement lists.
Stmts(n) == UNION {Range(NodeAt(n, b[1])[b[2]]) : b \in Blocks(n)}

\* All sequences over pool of length 1..max.
SeqsUpTo(pool, max) == UNION {[1..k -> pool] : k \in 1..max}

-----------------------------------------------------------------------------
(* The analyses the passes consume.  Their code is not in this file: they  *)
(* are the collaborators of the passes, modelled from their contracts.     *)

\* UsedDefChain: per variable name, its occurrences tagged D (define), U
\* (use) or UD (augmented assignment: use then redefine).  An occurrence
\* carries the identity of its Name node and that node's ctx.
ActionOf(tree, m) ==
    IF \E s \in NodeSet(tree) : s.type = "AugAssign" /\ s.target.id = m.id THEN "UD"
    ELSE IF m.ctx = "Load" THEN "U"
    ELSE "D"

NamesOf(tree) == {m.name : m \in {x \in NodeSet(tree) : x.type = "Name"}}

UsedDefChain(tree) ==
    [x \in NamesOf(tree) |->
        {[id |-> m.id, action |-> ActionOf(tree, m), ctx |-> m.ctx] :
            m \in {y \in NodeSet(tree) : y.type = "Name" /\ y.name = x}}]

-----------------------------------------------------------------------------
(* DeadCodeElimination                                                     *)

\* used_target with only plain uses counted (a UD occurrence forgotten).
used_target_OnlyU(n) ==
    IF n.type = "Name"
    THEN Cardinality({o \in used_def_chain[n.name] : o.action = "U"}) # 0
    ELSE TRUE

used_target(n) ==
    IF n.type = "Name"
    THEN LET udc == used_def_chain[n.name]
             use_count == Cardinality({o \in udc : o.action \in {"U", "UD"}})
         IN  use_count # 0
    ELSE TRUE

\* visit_Assign that drops the statement whenever no target is left.
DCE_visit_Assign_DropValue(n) ==
    LET targets == Filter(n.targets, {t \in Range(n.targets) : used_target(t)})
    IN  IF targets # <<>> THEN [n EXCEPT !.targets = targets]
        ELSE Pass(n.id \o <<0>>)

DCE_visit_Assign(n) ==
    LET targets == Filter(n.targets, {t \in Range(n.targets) : used_target(t)})
    IN  IF targets # <<>> THEN [n EXCEPT !.targets = targets]
        ELSE IF n.value.id \in pure_expressions THEN Pass(n.id \o <<0>>)
        ELSE [type |-> "Expr", id |-> n.id \o <<0>>, value |-> n.value]

DCE_visit_Expr(n) ==
    IF n.id \in pure_expressions /\ n.value.type # "Yield"
    THEN Pass(n.id \o <<0>>)
    ELSE n

\* NodeTransformer.visit / generic_visit for this pass: visit_Assign and
\* visit_Expr do not descend; every other node has its children visited.
\* No visitor of this pass returns None or a list, so a list field keeps its
\* length and a node field is replaced by the node returned.
RECURSIVE DCE_visit(_)
RECURSIVE DCE_visit_fields(_, _, _)
RECURSIVE DCE_visit_list(_)

DCE_visit_list(s) == [k \in 1..Len(s) |-> DCE_visit(s[k])]

DCE_visit_fields(n, fs, k) ==
    IF k > Len(fs) THEN n
    ELSE LET f == fs[k]
             m == IF IsListField(f)
                  THEN [n EXCEPT ![f] = DCE_visit_list(n[f])]
                  ELSE [n EXCEPT ![f] = DCE_visit(n[f])]
         IN  DCE_visit_fields(m, fs, k + 1)

DCE_visit(n) ==
    IF IsNone(n) THEN n
    ELSE IF n.type = "Assign" THEN DCE_visit_Assign(n)
    ELSE IF n.type = "Expr" THEN DCE_visit_Expr(n)
    ELSE DCE_visit_fields(n, Fields(n.type), 1)

\* Bounds of the trees the pass is run on.
MaxBody == 2

fCall == Call(Name("f", "Load"), <<>>)

DCE_Stmts ==
    { Assign(<<Name("a", "Store")>>, Num(1)),
      Assign(<<Name("a", "Store")>>, fCall),
      Assign(<<Name("a", "Store"), Name("b", "Store")>>, fCall),
      Assign(<<Name("a", "Store"),
               Subscript(Name("c", "Load"), Index(Num(0))),
               Name("b", "Store")>>, Num(1)),
      Assign(<<Name("b", "Store")>>, Yield(NoneNode)),
      Expr(fCall),
      Expr(Str("doc")),
      Expr(Yield(NoneNode)),
      AugAssign(Name("a", "Store"), "Add", Num(1)),
      Return(Name("b", "Load")),
      PrintStmt(<<Name("a", "Load")>>),
      For(Name("i", "Store"), List(<<Num(1)>>),
          <<Assign(<<Name("b", "Store")>>, fCall)>>, <<>>) }

DCE_Trees ==
    {Label(FunctionDef(<<Name("p", "Param")>>, body), <<1>>) :
        body \in SeqsUpTo(DCE_Stmts, MaxBody)}

\* The nodes PureExpressions may hold that the pass asks about.
PureCandidates(tree) ==
    {s.value.id : s \in {x \in NodeSet(tree) : x.type = "Assign"}}
        \cup {s.id : s \in {x \in NodeSet(tree) : x.type = "Expr"}}

InitDCE ==
    /\ pc = "run"
    /\ original \in DCE_Trees
    /\ node = original
    /\ raised = FALSE
    /\ used_def_chain = UsedDefChain(original)
    /\ pure_expressions \in SUBSET PureCandidates(original)
    /\ constant_expressions = {}
    /\ lazyness_analysis = <<>>
    /\ literals = {}
    /\ names = {}
    /\ log = <<>>

\* pm.apply(DeadCodeElimination, node): one traversal of the tree.
DeadCodeElimination ==
    /\ pc = "run"
    /\ node' = DCE_visit(node)
    /\ pc' = "done"
    /\ UNCHANGED <<original, raised, used_def_chain, pure_expressions,
                   constant_expressions, lazyness_analysis, literals,
                   names, log>>

NextDCE == DeadCodeElimination

SpecDCE == InitDCE /\ [][NextDCE]_vars


\* The statement of the returned tree at the place of statement i of
\* statement list b of the tree handed in.
OutBlock(b) == NodeAt(node, b[1])[b[2]]

InBlock(b) == NodeAt(original, b[1])[b[2]]

HasUse(x) == \E o \in used_def_chain[x] : o.action \in {"U", "UD"}

KeptTargets(s) == SelectSeq(s.targets, LAMBDA t : t.type # "Name" \/ HasUse(t.name))

\* C1: DeadCodeElimination never deletes a side-effecting computation.  The
\* value of every assignment whose value is not in the pure-expression set,
\* and of every expression statement that is not in the set or is a yield,
\* is still the value of the statement at its place in the returned tree:
\* of the assignment while a target is left, of a bare expression statement
\* once every target was dropped.
C1_SideEffectsKept ==
    pc = "done" =>
        \A b \in Blocks(original) :
            /\ Len(OutBlock(b)) = Len(InBlock(b))
            /\ \A i \in 1..Len(InBlock(b)) :
                LET s == InBlock(b)[i]
                    t == OutBlock(b)[i]
                IN  /\ (s.type = "Assign" /\ s.value.id \notin pure_expressions)
                        => /\ t.type \in {"Assign", "Expr"}
                           /\ t.value = s.value
                           /\ (t.type = "Expr") <=> (KeptTargets(s) = <<>>)
                    /\ (s.type = "Expr"
                          /\ (s.id \notin pure_expressions \/ s.value.type = "Yield"))
                        => t = s

\* C1 witness: an assignment with an impure value lost all its targets and
\* its value is executed as a bare expression statement.
C1_Witness ==
    /\ pc = "done"
    /\ \E b \in Blocks(original) : \E i \in 1..Len(InBlock(b)) :
          /\ InBlock(b)[i].type = "Assign"
          /\ InBlock(b)[i].value.id \notin pure_expressions
          /\ OutBlock(b)[i].type = "Expr"
          /\ OutBlock(b)[i].value = InBlock(b)[i].value

\* C2: visit_Assign keeps a Name target iff its chain has a U or UD
\* occurrence, keeps every other target, in their order; with no target
\* left and a pure value the statement is one Pass; a pure expression
\* statement that is not a yield is one Pass; every statement list keeps
\* its length.
C2_TargetsFiltered ==
    pc = "done" =>
        \A b \in Blocks(original) :
            /\ Len(OutBlock(b)) = Len(InBlock(b))
            /\ \A i \in 1..Len(InBlock(b)) :
                LET s == InBlock(b)[i]
                    t == OutBlock(b)[i]
                IN  /\ (s.type = "Assign" /\ KeptTargets(s) # <<>>)
                        => (t.type = "Assign" /\ t.targets = KeptTargets(s))
                    /\ (s.type = "Assign" /\ KeptTargets(s) = <<>>
                          /\ s.value.id \in pure_expressions)
                        => t.type = "Pass"
                    /\ (s.type = "Expr" /\ s.id \in pure_expressions
                          /\ s.value.type # "Yield")
                        => t.type = "Pass"

\* C2 witness: an assignment of three targets kept its non-Name target and
\* a used name and lost an unused name.
C2_Witness ==
    /\ pc = "done"
    /\ \E b \in Blocks(original) : \E i \in 1..Len(InBlock(b)) :
          /\ InBlock(b)[i].type = "Assign"
          /\ OutBlock(b)[i].type = "Assign"
          /\ Len(OutBlock(b)[i].targets) = 2
          /\ Len(InBlock(b)[i].targets) = 3
          /\ \E t \in Range(OutBlock(b)[i].targets) : t.type # "Name"


-----------------------------------------------------------------------------
(* LoopFullUnrolling                                                       *)

MAX_NODE_COUNT == 512

\* HasBreak / HasContinue: the subtree holds a break (a continue).
HasBreak(n) == \E m \in NodeSet(n) : m.type = "Break"

HasContinue(n) == \E m \in NodeSet(n) : m.type = "Continue"

\* NodeCount: the number of nodes of the subtree.
NodeCount(n) == Len(Nodes(n))

\* copy.deepcopy: the same tree of new nodes.  The identity of a copy is
\* that of the node copied, marked with the copy it belongs to.
RECURSIVE deepcopy(_, _)
RECURSIVE deepcopy_fields(_, _, _, _)
RECURSIVE deepcopy_list(_, _)

deepcopy_list(s, tag) == [k \in 1..Len(s) |-> deepcopy(s[k], tag)]

deepcopy_fields(n, tag, fs, k) ==
    IF k > Len(fs) THEN n
    ELSE LET f == fs[k]
             m == IF IsListField(f)
                  THEN [n EXCEPT ![f] = deepcopy_list(n[f], tag)]
                  ELSE [n EXCEPT ![f] = deepcopy(n[f], tag)]
         IN  deepcopy_fields(m, tag, fs, k + 1)

deepcopy(n, tag) ==
    IF IsNone(n) THEN n
    ELSE deepcopy_fields([n EXCEPT !.id = n.id \o <<0>> \o tag], tag,
                         Fields(n.type), 1)

\* unroll(elt) of visit_For, for the i-th element: the element itself is
\* the value of the new assignment (it is not copied).
unroll(n, i) ==
    <<[type |-> "Assign", id |-> n.id \o <<0, 0, i>>,
       targets |-> <<deepcopy(n.target, n.id \o <<i>>)>>,
       value |-> n.iter.elts[i]]>>
    \o deepcopy_list(n.body, n.id \o <<i>>)

\* reduce(list.__add__, map(unroll, node.iter.elts)) of a non-empty list.
unroll_all(n) == Flatten([i \in 1..Len(n.iter.elts) |-> unroll(n, i)])

\* The size guard with <= in place of <.
issmall_AtMost(total_count) == total_count <= MAX_NODE_COUNT

issmall(total_count) == total_count < MAX_NODE_COUNT

\* The validity guard with the directive forgotten.
isvalid_NoOMP(n) ==
    LET has_break == \E s \in Range(n.body) : HasBreak(s)
        has_cont == \E s \in Range(n.body) : HasContinue(s)
    IN  ~(has_break \/ has_cont)

isvalid(n) ==
    LET has_omp == "OMPDirective" \in n.metadata
        has_break == \E s \in Range(n.body) : HasBreak(s)
        has_cont == \E s \in Range(n.body) : HasContinue(s)
    IN  ~(has_omp \/ has_break \/ has_cont)

\* visit_For after generic_visit: n is the loop with its children visited.
\* The result is the list of nodes returned (out) or an exception (err):
\* reduce(list.__add__, []) raises TypeError when the literal is empty.
LFU_visit_For_tail(n) ==
    LET node_count == NodeCount(n)
    IN  IF n.iter.type = "List"
        THEN LET total_count == node_count * Len(n.iter.elts)
             IN  IF isvalid(n) /\ issmall(total_count)
                 THEN IF Len(n.iter.elts) = 0
                      THEN [out |-> <<>>, err |-> TRUE]
                      ELSE [out |-> unroll_all(n), err |-> FALSE]
                 ELSE [out |-> <<n>>, err |-> FALSE]
        ELSE [out |-> <<n>>, err |-> FALSE]

\* NodeTransformer.visit / generic_visit for this pass.  A visitor returns
\* a node or a list of nodes; a list returned for an element of a list
\* field is spliced into the list.  An exception ends the traversal.
RECURSIVE LFU_visit(_)
RECURSIVE LFU_generic_visit(_, _, _)
RECURSIVE LFU_visit_list(_)

LFU_visit_list(s) ==
    LET r == [k \in 1..Len(s) |-> LFU_visit(s[k])]
    IN  IF \E k \in 1..Len(s) : r[k].err THEN [out |-> <<>>, err |-> TRUE]
        ELSE [out |-> Flatten([k \in 1..Len(s) |-> r[k].out]), err |-> FALSE]

LFU_generic_visit(n, fs, k) ==
    IF k > Len(fs) THEN [out |-> <<n>>, err |-> FALSE]
    ELSE LET f == fs[k]
             r == IF IsListField(f) THEN LFU_visit_list(n[f]) ELSE LFU_visit(n[f])
         IN  IF r.err THEN [out |-> <<>>, err |-> TRUE]
             ELSE LFU_generic_visit(
                      IF IsListField(f) THEN [n EXCEPT ![f] = r.out]
                      ELSE IF r.out = <<>> THEN [n EXCEPT ![f] = NoneNode]
                      ELSE [n EXCEPT ![f] = r.out[1]],
                      fs, k + 1)

LFU_visit(n) ==
    IF IsNone(n) THEN [out |-> <<>>, err |-> FALSE]
    ELSE LET g == LFU_generic_visit(n, Fields(n.type), 1)
         IN  IF n.type = "For" /\ ~g.err THEN LFU_visit_For_tail(g.out[1]) ELSE g


\* What running a statement list does: the final bindings (env) and the
\* side effects in their order (trace: what print wrote).  Python's
\* semantics of the statements of the model; a for loop evaluates its list
\* literal once, before the first iteration, and runs its else clause
\* when it ends without a break.
RECURSIVE ValueOf(_, _)
ValueOf(e, env) ==
    CASE e.type = "Num"   -> e.n
      [] e.type = "Name"  -> env[e.name]
      [] e.type = "BinOp" -> ValueOf(e.left, env) + ValueOf(e.right, env)
      [] OTHER            -> 0

ValuesOf(es, env) == [k \in 1..Len(es) |-> ValueOf(es[k], env)]

RECURSIVE BindAll(_, _, _, _)
BindAll(targets, v, env, k) ==
    IF k > Len(targets) THEN env
    ELSE BindAll(targets, v,
                 IF targets[k].type = "Name"
                 THEN [env EXCEPT ![targets[k].name] = v] ELSE env,
                 k + 1)

RECURSIVE Exec(_, _, _)
RECURSIVE ExecStmt(_, _)
RECURSIVE ExecFor(_, _, _, _)

ExecFor(n, vals, k, st) ==
    IF k > Len(vals) THEN Exec(n.orelse, 1, st)
    ELSE ExecFor(n, vals, k + 1,
                 Exec(n.body, 1,
                      [st EXCEPT !.env = BindAll(<<n.target>>, vals[k], st.env, 1)]))

ExecStmt(s, st) ==
    CASE s.type = "Assign" ->
            [st EXCEPT !.env = BindAll(s.targets, ValueOf(s.value, st.env), st.env, 1)]
      [] s.type = "AugAssign" ->
            [st EXCEPT !.env[s.target.name] = @ + ValueOf(s.value, st.env)]
      [] s.type = "Print" ->
            [st EXCEPT !.trace = Append(@, ValuesOf(s.values, st.env))]
      [] s.type = "For" ->
            ExecFor(s, ValuesOf(s.iter.elts, st.env), 1, st)
      [] OTHER -> st

Exec(stmts, k, st) ==
    IF k > Len(stmts) THEN st ELSE Exec(stmts, k + 1, ExecStmt(stmts[k], st))

Run(tree) ==
    Exec(tree.body, 1, [env |-> [x \in NamesOf(original) |-> 0], trace |-> <<>>])

\* Bounds of the trees the pass is run on.
MaxLoops == 2

\* A list literal of m elements.
Rep(e, m) == [k \in 1..m |-> e]

jLoad == Name("j", "Load")
jStore == Name("j", "Store")
kStore == Name("k", "Store")
iAddJ == AugAssign(Name("i", "Store"), "Add", jLoad)

LFU_Stmts ==
    { For(jStore, List(<<Num(1), Num(2), Num(3)>>), <<iAddJ>>, <<>>),
      For(jStore, List(<<>>), <<iAddJ>>, <<>>),
      For(jStore, List(<<Num(1)>>), <<PrintStmt(<<jLoad>>)>>,
          <<PrintStmt(<<Name("i", "Load")>>)>>),
      For(jStore, List(<<Name("i", "Load"), Name("i", "Load")>>),
          <<AugAssign(Name("i", "Store"), "Add", Num(1)), PrintStmt(<<jLoad>>)>>, <<>>),
      ForOMP(jStore, List(<<Num(1), Num(2)>>), <<iAddJ>>, <<>>),
      For(jStore, List(<<Num(1), Num(2)>>), <<iAddJ, Break>>, <<>>),
      For(jStore, List(<<Num(1), Num(2)>>), <<Continue, iAddJ>>, <<>>),
      For(jStore, Name("xs", "Load"), <<iAddJ>>, <<>>),
      ForOMP(kStore, List(<<Num(1), Num(2)>>),
             <<For(jStore, List(<<Num(1), Num(2)>>), <<iAddJ>>, <<>>)>>, <<>>),
      For(kStore, List(<<Num(1), Num(2)>>),
          <<For(jStore, List(<<Num(3), Num(4)>>), <<iAddJ, PrintStmt(<<jLoad>>)>>, <<>>),
            PrintStmt(<<Name("k", "Load")>>)>>, <<>>),
      For(kStore, Name("xs", "Load"),
          <<For(jStore, List(<<>>), <<iAddJ>>, <<>>)>>, <<>>),
      AugAssign(Name("i", "Store"), "Add", Num(1)),
      PrintStmt(<<Name("i", "Load")>>) }

\* Loops at the ceiling: a body of one statement holding a literal of m
\* elements, over a literal of e elements.
BigLoop(m, e) ==
    For(jStore, List(Rep(Num(1), e)), <<Expr(List(Rep(Num(0), m)))>>, <<>>)

LFU_BigStmts ==
    { BigLoop(248, 2), BigLoop(249, 2), BigLoop(250, 2), BigLoop(255, 2),
      BigLoop(98, 10), BigLoop(506, 1), BigLoop(505, 1), BigLoop(120, 4) }

LFU_Trees ==
    {Label(FunctionDef(<<>>, body), <<1>>) :
        body \in SeqsUpTo(LFU_Stmts, MaxLoops) \cup SeqsUpTo(LFU_BigStmts, 1)}

InitLFU ==
    /\ pc = "run"
    /\ original \in LFU_Trees
    /\ node = [original EXCEPT !.body = <<>>]
    /\ raised = FALSE
    /\ used_def_chain = <<>>
    /\ pure_expressions = {}
    /\ constant_expressions = {}
    /\ lazyness_analysis = <<>>
    /\ literals = {}
    /\ names = {}
    /\ log = <<>>

\* generic_visit of the function: visit the next statement of its body and
\* splice what the visitor returns into the new statement list (node.body
\* is new_values while the loop runs).  log keeps, per statement visited,
\* the statement and what was returned for it.
LFU_VisitStmt ==
    /\ pc = "run"
    /\ Len(log) < Len(original.body)
    /\ LET s == original.body[Len(log) + 1]
           r == LFU_visit(s)
       IN  /\ log' = Append(log, [stmt |-> s, out |-> r.out, err |-> r.err])
           /\ node' = [node EXCEPT !.body = @ \o r.out]
           /\ raised' = r.err
           /\ pc' = IF r.err THEN "done" ELSE "run"
    /\ UNCHANGED <<original, used_def_chain, pure_expressions,
                   constant_expressions, lazyness_analysis, literals, names>>

\* The traversal is over: the pass returns the tree.
LFU_Return ==
    /\ pc = "run"
    /\ Len(log) = Len(original.body)
    /\ pc' = "done"
    /\ UNCHANGED <<original, node, raised, used_def_chain, pure_expressions,
                   constant_expressions, lazyness_analysis, literals, names, log>>

NextLFU == LFU_VisitStmt \/ LFU_Return

SpecLFU == InitLFU /\ [][NextLFU]_vars


\* A tree without its identities: what the tree reads as.
RECURSIVE Strip(_)
RECURSIVE StripFields(_, _, _)
StripFields(n, fs, k) ==
    IF k > Len(fs) THEN n
    ELSE LET f == fs[k]
             m == IF IsListField(f)
                  THEN [n EXCEPT ![f] = [j \in 1..Len(n[f]) |-> Strip(n[f][j])]]
                  ELSE [n EXCEPT ![f] = Strip(n[f])]
         IN  StripFields(m, fs, k + 1)

Strip(n) ==
    IF IsNone(n) THEN n ELSE StripFields([n EXCEPT !.id = <<>>], Fields(n.type), 1)

LoopEntries == {e \in Range(log) : e.stmt.type = "For"}

\* The loop of a log entry once its children were visited (the loop itself
\* when a nested loop raised).
ChildrenVisited(s) ==
    LET g == LFU_generic_visit(s, Fields(s.type), 1)
    IN  IF g.err THEN s ELSE g.out[1]

NestedRaises(s) == LFU_generic_visit(s, Fields(s.type), 1).err

\* The guards of visit_For other than the size guard.
OtherGuardsPass(s) ==
    LET f == ChildrenVisited(s)
    IN  /\ ~NestedRaises(s)
        /\ f.iter.type = "List"
        /\ "OMPDirective" \notin f.metadata
        /\ \A m \in NodeSet(f) : m.id \in Ids(f.target) \cup Ids(f.iter)
               \/ m.id = f.id \/ m.id \in UNION {Ids(x) : x \in Range(f.orelse)}
               \/ m.type \notin {"Break", "Continue"}

GuardsPass(s) ==
    /\ OtherGuardsPass(s)
    /\ NodeCount(ChildrenVisited(s)) * Len(ChildrenVisited(s).iter.elts)
          < MAX_NODE_COUNT

\* The loop came back as itself, not replaced.
Rejected(e) ==
    /\ ~e.err
    /\ Len(e.out) = 1
    /\ e.out[1].type = "For"
    /\ e.out[1].id = e.stmt.id

\* What was returned is, per element in source order, an assignment of the
\* element to a copy of the target, then a copy of the body.
ShapeOK(e) ==
    LET f == ChildrenVisited(e.stmt)
        n == Len(f.iter.elts)
        k == Len(f.body)
    IN  /\ Len(e.out) = n * (k + 1)
        /\ \A i \in 1..n :
              LET a == e.out[(i - 1) * (k + 1) + 1]
              IN  /\ a.type = "Assign"
                  /\ Len(a.targets) = 1
                  /\ Strip(a.targets[1]) = Strip(f.target)
                  /\ a.value = f.iter.elts[i]
                  /\ \A j \in 1..k :
                        Strip(e.out[(i - 1) * (k + 1) + 1 + j]) = Strip(f.body[j])

\* C3: when LoopFullUnrolling fires on a loop over a list literal of n
\* elements, for every n >= 0, the loop is replaced by n groups in source
\* order, each an assignment of the element to a copy of the target then a
\* copy of the k body statements (n*(k+1) statements), and nothing is
\* raised.
C3_UnrollShape ==
    \A e \in LoopEntries : GuardsPass(e.stmt) => (~e.err /\ ShapeOK(e))

\* C4: unroll equivalence.  When the pass returns and has unrolled a loop
\* of a tree whose loops are over list literals, with or without an else
\* clause, and hold no break or continue, running the statements returned
\* gives the same final bindings and the same side effects in the same
\* order as running the original statements.
C4_UnrollEquivalence ==
    (/\ pc = "done"
     /\ ~raised
     /\ \A m \in NodeSet(original) :
            /\ m.type = "For" => m.iter.type = "List"
            /\ m.type \notin {"Break", "Continue"}
     /\ \E e \in LoopEntries : GuardsPass(e.stmt))
    => Run(node) = Run(original)

\* C5 as stated: a loop that fails a guard (directive, ceiling, break or
\* continue, iterable not a list literal) is returned unchanged, every
\* statement of its body included.
C5_ReturnedUnchanged ==
    \A e \in LoopEntries : ~GuardsPass(e.stmt) => (~e.err /\ e.out = <<e.stmt>>)

NestedLoops(s) == {m \in NodeSet(s) : m.type = "For" /\ m.id # s.id}

\* C5 amended: a loop that fails a guard is not replaced: the same loop
\* node comes back with its target, iterable and directive, and its body
\* and else clause are unchanged when they hold no nested loop (nested
\* loops are visited first and unrolled on their own account); the only
\* other outcome is the exception of a nested loop over an empty literal.
C5_NotReplaced ==
    \A e \in LoopEntries : ~GuardsPass(e.stmt) =>
        IF e.err
        THEN \E m \in NestedLoops(e.stmt) : m.iter.type = "List" /\ m.iter.elts = <<>>
        ELSE /\ Rejected(e)
             /\ e.out[1].target = e.stmt.target
             /\ e.out[1].iter = e.stmt.iter
             /\ e.out[1].metadata = e.stmt.metadata
             /\ Len(e.out[1].orelse) = Len(e.stmt.orelse)
             /\ (NestedLoops(e.stmt) = {} => e.out[1] = e.stmt)

\* C5 witness: a loop with a directive came back as the same node with its
\* nested loop unrolled, and a loop with a break came back unchanged.
C5_Witness ==
    /\ \E e \in LoopEntries :
          /\ "OMPDirective" \in e.stmt.metadata
          /\ Rejected(e)
          /\ Len(e.out[1].body) > Len(e.stmt.body)
    /\ \E e \in LoopEntries :
          /\ HasBreak(e.stmt)
          /\ e.out = <<e.stmt>>

BodyNodeCount(f) == Len(NodesOfList(f.body))

\* C9 as stated: the size guard rejects iff body_node_count * element_count
\* exceeds 512, counting the nodes of the transformed body only; a loop
\* whose product does not exceed 512 and passes the other guards is
\* unrolled.
C9_SizeGuardBody ==
    \A e \in LoopEntries : OtherGuardsPass(e.stmt) =>
        LET f == ChildrenVisited(e.stmt)
            exceeds == BodyNodeCount(f) * Len(f.iter.elts) > MAX_NODE_COUNT
        IN  /\ Rejected(e) <=> exceeds
            /\ ~exceeds => (~e.err /\ ShapeOK(e))

\* C9 amended: the size guard rejects iff node_count * element_count is 512
\* or more, where node_count counts the whole transformed loop node
\* (target, iterable, body and else clause); a loop of at least one
\* element below that and passing the other guards is unrolled.
C9_SizeGuardWhole ==
    \A e \in LoopEntries : OtherGuardsPass(e.stmt) =>
        LET f == ChildrenVisited(e.stmt)
            total == NodeCount(f) * Len(f.iter.elts)
        IN  /\ Rejected(e) <=> total >= MAX_NODE_COUNT
            /\ (total < MAX_NODE_COUNT /\ Len(f.iter.elts) >= 1)
                  => (~e.err /\ ShapeOK(e))

\* C9 witness: a loop whose whole-node product is exactly 512, and whose
\* body-only product is below it, was rejected.
C9_Witness ==
    \E e \in LoopEntries :
        /\ OtherGuardsPass(e.stmt)
        /\ NodeCount(e.stmt) * Len(e.stmt.iter.elts) = MAX_NODE_COUNT
        /\ BodyNodeCount(e.stmt) * Len(e.stmt.iter.elts) < MAX_NODE_COUNT
        /\ Rejected(e)


-----------------------------------------------------------------------------
(* ConstantFolding                                                         *)

\* maximum length of folded sequences: 2 ** 8
MAX_LEN == 256

\* Python values.  A set is kept as its elements in iteration order, a
\* dict as its keys and values in iteration order.
IntV(n) == [kind |-> "int", v |-> n]
BoolV(b) == [kind |-> "bool", v |-> b]
StrV(x) == [kind |-> "str", v |-> x]
NoneV == [kind |-> "NoneType"]
ListV(items) == [kind |-> "list", items |-> items]
TupleV(items) == [kind |-> "tuple", items |-> items]
SetV(items) == [kind |-> "set", items |-> items]
DictV(keys, values) == [kind |-> "dict", items |-> keys, values |-> values]

Ok(v) == [ok |-> TRUE, val |-> v]
Raise == [ok |-> FALSE]

\* The elements of a sequence without repetitions, first occurrences kept.
Distinct(items) ==
    LET first == {i \in 1..Len(items) : \A j \in 1..(i - 1) : items[j] # items[i]}
    IN  IF Cardinality(first) = Len(items) THEN items
        ELSE [k \in 1..Cardinality(first) |->
                items[CHOOSE i \in first : Cardinality({j \in first : j < i}) = k - 1]]

\* The builtins the expressions of the model call.
CallBuiltin(f, args) ==
    CASE f = "range" /\ Len(args) = 1 /\ args[1].kind = "int" ->
            Ok(ListV([k \in 1..args[1].v |-> IntV(k - 1)]))
      [] f = "tuple" /\ Len(args) = 1 /\ args[1].kind \in {"list", "tuple", "set"} ->
            Ok(TupleV(args[1].items))
      [] f = "set" /\ Len(args) = 1 /\ args[1].kind \in {"list", "tuple", "set"} ->
            Ok(SetV(Distinct(args[1].items)))
      [] f = "len" /\ Len(args) = 1
            /\ args[1].kind \in {"list", "tuple", "set", "dict"} ->
            Ok(IntV(Len(args[1].items)))
      [] f = "zip" /\ Len(args) = 2 /\ args[1].kind = "list" /\ args[2].kind = "list" ->
            Ok(ListV([k \in 1..(IF Len(args[1].items) < Len(args[2].items)
                                THEN Len(args[1].items) ELSE Len(args[2].items)) |->
                        TupleV(<<args[1].items[k], args[2].items[k]>>)]))
      [] f = "dict" /\ Len(args) = 1 /\ args[1].kind = "list"
            /\ (\A k \in 1..Len(args[1].items) :
                    /\ args[1].items[k].kind = "tuple"
                    /\ Len(args[1].items[k].items) = 2)
            /\ Distinct([k \in 1..Len(args[1].items) |-> args[1].items[k].items[1]])
                  = [k \in 1..Len(args[1].items) |-> args[1].items[k].items[1]] ->
            Ok(DictV([k \in 1..Len(args[1].items) |-> args[1].items[k].items[1]],
                     [k \in 1..Len(args[1].items) |-> args[1].items[k].items[2]]))
      [] OTHER -> Raise

BinOpValue(op, l, r) ==
    CASE op = "Add" /\ l.kind = "int" /\ r.kind = "int" -> Ok(IntV(l.v + r.v))
      [] op = "Add" /\ l.kind = r.kind /\ l.kind \in {"list", "tuple"} ->
            Ok([kind |-> l.kind, items |-> l.items \o r.items])
      [] op = "Mult" /\ l.kind = "int" /\ r.kind = "int" -> Ok(IntV(l.v * r.v))
      [] op = "Mult" /\ l.kind \in {"list", "tuple"} /\ r.kind = "int" ->
            Ok([kind |-> l.kind,
                items |-> [k \in 1..(Len(l.items) * (IF r.v > 0 THEN r.v ELSE 0)) |->
                              l.items[((k - 1) % Len(l.items)) + 1]]])
      [] op = "Div" /\ l.kind = "int" /\ r.kind = "int" /\ r.v # 0 ->
            Ok(IntV(l.v \div r.v))
      [] OTHER -> Raise

\* eval(compile(ast.Expression(node), ...), self.env): the value of the
\* expression, or an exception (ZeroDivisionError, TypeError, IndexError,
\* NameError for a name that is no builtin).
RECURSIVE eval(_)
eval(e) ==
    CASE e.type = "Num" -> Ok(IntV(e.n))
      [] e.type = "Str" -> Ok(StrV(e.s))
      [] e.type = "Attribute" ->
            IF e.value.type = "Name" /\ e.value.name = "__builtin__"
            THEN (CASE e.attr = "True" -> Ok(BoolV(TRUE))
                    [] e.attr = "False" -> Ok(BoolV(FALSE))
                    [] e.attr = "None" -> Ok(NoneV)
                    [] OTHER -> Raise)
            ELSE Raise
      [] e.type \in {"List", "Tuple", "Set"} ->
            LET r == [k \in 1..Len(e.elts) |-> eval(e.elts[k])]
                items == [k \in 1..Len(e.elts) |-> r[k].val]
            IN  IF \E k \in 1..Len(e.elts) : ~r[k].ok THEN Raise
                ELSE (CASE e.type = "List" -> Ok(ListV(items))
                        [] e.type = "Tuple" -> Ok(TupleV(items))
                        [] e.type = "Set" -> Ok(SetV(Distinct(items))))
      [] e.type = "BinOp" ->
            LET l == eval(e.left)
                r == eval(e.right)
            IN  IF l.ok /\ r.ok THEN BinOpValue(e.op, l.val, r.val) ELSE Raise
      [] e.type = "Call" ->
            LET r == [k \in 1..Len(e.args) |-> eval(e.args[k])]
            IN  IF e.func.type = "Name" /\ (\A k \in 1..Len(e.args) : r[k].ok)
                THEN CallBuiltin(e.func.name, [k \in 1..Len(e.args) |-> r[k].val])
                ELSE Raise
      [] e.type = "Subscript" ->
            LET v == eval(e.value)
                i == IF e.slice.type = "Index" THEN eval(e.slice.value) ELSE Raise
            IN  IF v.ok /\ i.ok /\ v.val.kind \in {"list", "tuple"} /\ i.val.kind = "int"
                   /\ i.val.v >= 0 /\ i.val.v < Len(v.val.items)
                THEN Ok(v.val.items[i.val.v + 1])
                ELSE Raise
      [] OTHER -> Raise

\* len(value) < MAX_LEN with <= in its place.
below_cap_AtMost(value) == Len(value.items) <= MAX_LEN

below_cap(value) == Len(value.items) < MAX_LEN

\* to_ast: the literal node of a value, or ConversionError.  id is the
\* identity of the node created (the nodes are new).
RECURSIVE to_ast(_, _)
to_ast(value, id) ==
    LET elts(items, f) == [k \in 1..Len(items) |-> to_ast(items[k], id \o <<f, k>>)]
        allok(r) == \A k \in 1..Len(r) : r[k].ok
        nodes(r) == [k \in 1..Len(r) |-> r[k].node]
        ok(n) == [ok |-> TRUE, node |-> n]
        ConversionError == [ok |-> FALSE]
    IN  CASE value.kind = "int" -> ok([type |-> "Num", id |-> id, n |-> value.v])
          [] value.kind = "bool" ->
                ok([type |-> "Attribute", id |-> id,
                    value |-> [type |-> "Name", id |-> id \o <<1>>,
                               name |-> "__builtin__", ctx |-> "Load"],
                    attr |-> IF value.v THEN "True" ELSE "False"])
          [] value.kind = "str" -> ok([type |-> "Str", id |-> id, s |-> value.v])
          [] value.kind \in {"list", "tuple", "set"} /\ below_cap(value) ->
                LET r == elts(value.items, 1)
                IN  IF allok(r)
                    THEN ok([type |-> (CASE value.kind = "list" -> "List"
                                        [] value.kind = "tuple" -> "Tuple"
                                        [] value.kind = "set" -> "Set"),
                             id |-> id, elts |-> nodes(r)])
                    ELSE ConversionError
          [] value.kind = "dict" /\ below_cap(value) ->
                LET keys == elts(value.items, 1)
                    values == elts(value.values, 2)
                IN  IF allok(keys) /\ allok(values)
                    THEN ok([type |-> "Dict", id |-> id,
                             keys |-> nodes(keys), values |-> nodes(values)])
                    ELSE ConversionError
          [] OTHER -> ConversionError

\* The try block of generic_visit: the node that replaces a flagged node,
\* or the exception that was caught.
fold(n) ==
    LET value == eval(IF n.type = "Index" THEN n.value ELSE n)
        new_node == IF value.ok THEN to_ast(value.val, n.id \o <<0>>) ELSE [ok |-> FALSE]
    IN  IF ~new_node.ok THEN [ok |-> FALSE]
        ELSE IF n.type = "Index" /\ new_node.node.type # "Index"
        THEN [ok |-> TRUE,
              node |-> [type |-> "Index", id |-> n.id \o <<0, 0>>, value |-> new_node.node]]
        ELSE new_node

\* ConstantFolding.generic_visit (every node type of the pass is visited by
\* it) and Transformation.generic_visit, which visits the children.
RECURSIVE CF_generic_visit(_)
RECURSIVE CF_visit_children(_, _, _)

CF_visit_children(n, fs, k) ==
    IF k > Len(fs) THEN n
    ELSE LET f == fs[k]
             m == IF IsListField(f)
                  THEN [n EXCEPT ![f] = [j \in 1..Len(n[f]) |-> CF_generic_visit(n[f][j])]]
                  ELSE [n EXCEPT ![f] = CF_generic_visit(n[f])]
         IN  CF_visit_children(m, fs, k + 1)

\* The except branch returning the node without visiting its children.
CF_on_error_KeepSubtree(n) == n

CF_on_error(n) == CF_visit_children(n, Fields(n.type), 1)

CF_generic_visit(n) ==
    IF IsNone(n) THEN n
    ELSE IF n.id \in constant_expressions
    THEN IF fold(n).ok THEN fold(n).node ELSE CF_on_error(n)
    ELSE CF_visit_children(n, Fields(n.type), 1)


\* ConstantExpressions: the expression nodes (and Index nodes) that depend
\* on no variable: every name below them is a builtin.
Builtins == {"__builtin__", "range", "tuple", "set", "len", "zip", "dict"}

ExprTypes ==
    {"Num", "Str", "Attribute", "List", "Tuple", "Set", "Dict", "BinOp", "Call",
     "Subscript", "Index"}

ConstantExpressions(tree) ==
    {m.id : m \in {x \in NodeSet(tree) :
                      /\ x.type \in ExprTypes
                      /\ \A y \in NodeSet(x) : y.type = "Name" => y.name \in Builtins}}

\* Bounds of the trees the pass is run on.
MaxExprs == 2

Builtin(f) == Name(f, "Load")
range(n) == Call(Builtin("range"), <<n>>)
OnePlus(n) == BinOp(Num(1), "Add", Num(n))

CF_Exprs ==
    { OnePlus(3),
      Str("s"),
      Attribute(Builtin("__builtin__"), "True"),
      BinOp(OnePlus(3), "Div", Num(0)),
      Tuple(<<OnePlus(1), Attribute(Builtin("__builtin__"), "None")>>),
      Subscript(Name("x", "Load"), Index(OnePlus(0))),
      BinOp(Name("x", "Load"), "Add", OnePlus(3)),
      SetLit(<<Num(1), OnePlus(0), Num(2)>>),
      Call(Builtin("dict"), <<Call(Builtin("zip"), <<range(Num(2)), List(<<Str("a"), Str("b")>>)>>)>>),
      Subscript(List(<<Num(5), Num(6)>>), Index(Num(2))) }

\* Expressions whose values are containers at the cap.
CF_BigExprs ==
    { BinOp(List(<<OnePlus(2)>>), "Mult", Num(256)),
      BinOp(List(<<Num(0)>>), "Mult", Num(255)),
      range(Num(256)),
      range(BinOp(Num(250), "Add", Num(5))),
      List(<<range(Num(256)), OnePlus(3)>>),
      List(<<Tuple(<<range(Num(255))>>)>>),
      Call(Builtin("tuple"), <<range(Num(256))>>),
      Call(Builtin("tuple"), <<range(Num(255))>>),
      Call(Builtin("set"), <<range(Num(256))>>),
      Call(Builtin("set"), <<range(Num(255))>>),
      Call(Builtin("dict"), <<Call(Builtin("zip"), <<range(Num(256)), range(Num(256))>>)>>),
      Call(Builtin("dict"), <<Call(Builtin("zip"), <<range(Num(255)), range(Num(255))>>)>>),
      Subscript(range(Num(256)), Index(OnePlus(2))),
      Call(Builtin("len"), <<BinOp(List(<<Num(0)>>), "Mult", Num(300))>>) }

CF_Trees ==
    {Label(FunctionDef(<<>>, [k \in 1..Len(es) |-> Return(es[k])]), <<1>>) :
        es \in SeqsUpTo(CF_Exprs, MaxExprs) \cup SeqsUpTo(CF_BigExprs, 2)}

InitCF ==
    /\ pc = "run"
    /\ original \in CF_Trees
    /\ node = [original EXCEPT !.body = <<>>]
    /\ raised = FALSE
    /\ used_def_chain = <<>>
    /\ pure_expressions = {}
    /\ constant_expressions = ConstantExpressions(original)
    /\ lazyness_analysis = <<>>
    /\ literals = {}
    /\ names = {}
    /\ log = <<>>

\* Transformation.generic_visit of the function: visit the next statement
\* of its body (no exception can leave generic_visit: the try block
\* catches Exception).
CF_VisitStmt ==
    /\ pc = "run"
    /\ Len(log) < Len(original.body)
    /\ LET s == original.body[Len(log) + 1]
           r == CF_generic_visit(s)
       IN  /\ log' = Append(log, [stmt |-> s, out |-> <<r>>, err |-> FALSE])
           /\ node' = [node EXCEPT !.body = Append(@, r)]
    /\ UNCHANGED <<pc, original, raised, used_def_chain, pure_expressions,
                   constant_expressions, lazyness_analysis, literals, names>>

\* The traversal is over: the pass returns the tree.
CF_Return ==
    /\ pc = "run"
    /\ Len(log) = Len(original.body)
    /\ pc' = "done"
    /\ UNCHANGED <<original, node, raised, used_def_chain, pure_expressions,
                   constant_expressions, lazyness_analysis, literals, names, log>>

NextCF == CF_VisitStmt \/ CF_Return

SpecCF == InitCF /\ [][NextCF]_vars


IsPrefix(a, b) == Len(a) <= Len(b) /\ SubSeq(b, 1, Len(a)) = a

Flagged(m) == m.id \in constant_expressions

\* generic_visit is called on m: no node above m was replaced by a literal.
Reached(m) ==
    \A x \in NodeSet(original) :
        (x.id # m.id /\ IsPrefix(x.id, m.id) /\ Flagged(x)) => ~fold(x).ok

\* The children of a node, in field order.
Children(n) ==
    Flatten([k \in 1..Len(Fields(n.type)) |->
                LET f == Fields(n.type)[k]
                IN  IF IsListField(f) THEN n[f]
                    ELSE IF IsNone(n[f]) THEN <<>> ELSE <<n[f]>>])

\* A node created by the pass: its identity is marked.
IsNew(m) == \E i \in 1..Len(m.id) : m.id[i] = 0

ContainerTypes == {"List", "Tuple", "Set", "Dict"}

Size(m) == IF m.type = "Dict" THEN Len(m.keys) ELSE Len(m.elts)

\* The value is, or holds at some depth, a container of MAX_LEN elements
\* or more.
RECURSIVE OverCap(_)
OverCap(v) ==
    /\ v.kind \in {"list", "tuple", "set", "dict"}
    /\ \/ Len(v.items) >= MAX_LEN
       \/ \E k \in 1..Len(v.items) : OverCap(v.items[k])
       \/ v.kind = "dict" /\ \E k \in 1..Len(v.values) : OverCap(v.values[k])

\* C6 as stated: a flagged node that cannot be folded comes back with its
\* whole subtree untouched (it reads as before: no descendant is replaced
\* by another expression), nothing is raised, and the flagged nodes of the
\* rest of the tree are folded.
C6_SubtreeUntouched ==
    pc = "done" =>
        /\ ~raised
        /\ \A m \in NodeSet(original) : (Flagged(m) /\ Reached(m)) =>
              IF fold(m).ok
              THEN NodeAt(node, m.id) = NoneNode /\ NodeAt(node, fold(m).node.id) # NoneNode
              ELSE Strip(NodeAt(node, m.id)) = Strip(m)

\* C6 amended: a flagged node that cannot be folded comes back as the same
\* node, nothing is raised, and its children are visited in turn: a flagged
\* child that folds is replaced by its literal, every other child is kept;
\* the flagged nodes of the rest of the tree are folded.
C6_NodeKeptChildrenVisited ==
    pc = "done" =>
        /\ ~raised
        /\ \A m \in NodeSet(original) : (Flagged(m) /\ Reached(m)) =>
              IF fold(m).ok
              THEN NodeAt(node, m.id) = NoneNode /\ NodeAt(node, fold(m).node.id) # NoneNode
              ELSE LET t == NodeAt(node, m.id)
                   IN  /\ t # NoneNode
                       /\ t.type = m.type
                       /\ Len(Children(t)) = Len(Children(m))
                       /\ \A k \in 1..Len(Children(m)) :
                             LET c == Children(m)[k]
                                 u == Children(t)[k]
                             IN  IF Flagged(c) /\ fold(c).ok
                                 THEN u = fold(c).node
                                 ELSE u.id = c.id

\* C6 witness: a flagged node that could not be folded was kept while a
\* flagged child of it was replaced by a literal.
C6_Witness ==
    /\ pc = "done"
    /\ \E m \in NodeSet(original) :
          /\ Flagged(m) /\ Reached(m) /\ ~fold(m).ok
          /\ NodeAt(node, m.id) # NoneNode
          /\ \E k \in 1..Len(Children(m)) :
                /\ Children(m)[k].type # "Num"
                /\ Flagged(Children(m)[k]) /\ fold(Children(m)[k]).ok
                /\ NodeAt(node, fold(Children(m)[k]).node.id) # NoneNode

-----------------------------------------------------------------------------
(* ForwardSubstitution and _LazyRemover                                    *)

\* float('inf') of the laziness metric.
Inf == -1

\* _LazyRemover(ctx, U, D).visit(n).  U is the set of identities of the
\* use nodes, D the identity of the define node (Python compares ast
\* nodes by identity).  The remover carries self.capture through the
\* traversal: a visit returns the node that takes n's place (NoneNode for
\* None, which NodeTransformer drops from a list and deletes from a node
\* field), the capture afterwards, and whether an exception was raised
\* (node.value read after NodeTransformer deleted the attribute).
RECURSIVE LR_visit(_, _, _, _)
RECURSIVE LR_generic_visit(_, _, _, _, _, _, _)
RECURSIVE LR_visit_list(_, _, _, _, _, _)

LR_visit_list(s, k, acc, U, D, st) ==
    IF k > Len(s) \/ st.err THEN [nodes |-> acc, capture |-> st.capture, err |-> st.err]
    ELSE LET r == LR_visit(s[k], U, D, st)
         IN  LR_visit_list(s, k + 1,
                           IF IsNone(r.node) THEN acc ELSE Append(acc, r.node),
                           U, D, [capture |-> r.capture, err |-> r.err])

LR_generic_visit(n, fs, k, U, D, capture, err) ==
    IF k > Len(fs) \/ err THEN [node |-> n, capture |-> capture, err |-> err]
    ELSE LET f == fs[k]
             st == [capture |-> capture, err |-> err]
         IN  IF IsListField(f)
             THEN LET r == LR_visit_list(n[f], 1, <<>>, U, D, st)
                  IN  LR_generic_visit([n EXCEPT ![f] = r.nodes], fs, k + 1,
                                       U, D, r.capture, r.err)
             ELSE IF IsNone(n[f]) THEN LR_generic_visit(n, fs, k + 1, U, D, capture, err)
             ELSE LET r == LR_visit(n[f], U, D, st)
                  IN  LR_generic_visit([n EXCEPT ![f] = r.node], fs, k + 1,
                                       U, D, r.capture, r.err)

LR_visit_Name(n, U, capture) == IF n.id \in U THEN capture ELSE n

\* visit_Assign removing the define from the targets without the Pass of
\* the single-target case.
LR_visit_Assign_tail_NoPass(n, D, capture) ==
    IF D \in {t.id : t \in Range(n.targets)}
    THEN [node |-> [n EXCEPT !.targets = SelectSeq(n.targets, LAMBDA t : t.id # D)],
          capture |-> n.value, err |-> IsNone(n.value)]
    ELSE [node |-> n, capture |-> capture, err |-> FALSE]

\* visit_Assign after self.generic_visit(node).
LR_visit_Assign_tail(n, D, capture) ==
    IF D \in {t.id : t \in Range(n.targets)}
    THEN IF IsNone(n.value) THEN [node |-> n, capture |-> capture, err |-> TRUE]
         ELSE IF Len(n.targets) = 1
         THEN [node |-> Pass(n.id \o <<0>>), capture |-> n.value, err |-> FALSE]
         ELSE [node |-> [n EXCEPT !.targets = SelectSeq(n.targets, LAMBDA t : t.id # D)],
               capture |-> n.value, err |-> FALSE]
    ELSE [node |-> n, capture |-> capture, err |-> FALSE]

LR_visit(n, U, D, st) ==
    IF n.type = "Name"
    THEN [node |-> LR_visit_Name(n, U, st.capture), capture |-> st.capture, err |-> FALSE]
    ELSE LET g == LR_generic_visit(n, Fields(n.type), 1, U, D, st.capture, st.err)
         IN  IF n.type = "Assign" /\ ~g.err
             THEN LR_visit_Assign_tail(g.node, D, g.capture)
             ELSE g

\* _LazyRemover(self.ctx, U, D[0]).visit(node), capture starting as None.
LazyRemover(n, U, D) == LR_visit(n, U, D, [capture |-> NoneNode, err |-> FALSE])

\* get(action) of visit_FunctionDef.
get(udgraph, action) == {o \in udgraph : o.action = action}

\* The first test of visit_FunctionDef.
eligible(name) ==
    \/ (Cardinality(used_def_chain[name]) = 2 /\ lazyness_analysis[name] = 1)
    \/ (lazyness_analysis[name] # Inf /\ name \in literals)

\* The second test with the UD occurrences forgotten.
forwardable_NoUD(name) ==
    LET D == get(used_def_chain[name], "D")
    IN  Cardinality(D) = 1 /\ (\A d \in D : d.ctx # "Param")

\* The second test of visit_FunctionDef.
forwardable(name) ==
    LET D == get(used_def_chain[name], "D")
    IN  /\ Cardinality(D) = 1
        /\ Cardinality(get(used_def_chain[name], "UD")) = 0
        /\ \A d \in D : d.ctx # "Param"

\* Bounds of the trees the pass is run on.
MaxFS == 2

aStore == Name("a", "Store")
aLoad == Name("a", "Load")
bStore == Name("b", "Store")
bLoad == Name("b", "Load")

FS_Stmts ==
    { Assign(<<aStore>>, List(<<Num(2), Num(3)>>)),
      PrintStmt(<<aLoad>>),
      PrintStmt(<<BinOp(aLoad, "Add", aLoad)>>),
      Assign(<<bStore>>, List(<<aLoad>>)),
      Assign(<<aStore, bStore>>, Num(2)),
      For(aStore, Name("p", "Load"), <<PrintStmt(<<aLoad>>)>>, <<>>),
      For(bStore, Name("p", "Load"),
          <<PrintStmt(<<aLoad>>), Assign(<<aStore>>, Num(5))>>, <<>>),
      AugAssign(aStore, "Add", Num(1)) }

\* Function bodies: up to MaxFS statements, no statement twice.
FS_Bodies ==
    {body \in SeqsUpTo(FS_Stmts, MaxFS) :
        \A i, j \in 1..Len(body) : body[i] = body[j] => i = j}

FS_Trees ==
    {Label(FunctionDef(<<Name("p", "Param")>>, body), <<1>>) : body \in FS_Bodies}

\* The names Literals may hold: those assigned a literal.
LiteralCandidates(tree) ==
    {t.name : t \in UNION {{x \in Range(s.targets) : x.type = "Name"} :
                             s \in {y \in NodeSet(tree) :
                                       y.type = "Assign"
                                       /\ y.value.type \in {"Num", "Str", "List"}}}}

InitFS ==
    /\ pc = "run"
    /\ original \in FS_Trees
    /\ node = original
    /\ raised = FALSE
    /\ used_def_chain = UsedDefChain(original)
    /\ pure_expressions = {}
    /\ constant_expressions = {}
    /\ lazyness_analysis \in [NamesOf(original) -> {1, 2, Inf}]
    /\ literals \in SUBSET LiteralCandidates(original)
    /\ names = NamesOf(original)
    /\ log = <<>>

\* One iteration of the loop of visit_FunctionDef over used_def_chain (a
\* dict: the names come in no particular order).  log keeps, per name, the
\* tree before and after its iteration.
FS_Step ==
    /\ pc = "run"
    /\ \E name \in names :
          LET U == {o.id : o \in get(used_def_chain[name], "U")}
              D == get(used_def_chain[name], "D")
              r == LazyRemover(node, U, (CHOOSE d \in D : TRUE).id)
              fires == eligible(name) /\ forwardable(name)
          IN  /\ names' = names \ {name}
              /\ node' = IF fires /\ ~r.err THEN r.node ELSE node
              /\ raised' = (fires /\ r.err)
              /\ pc' = IF fires /\ r.err THEN "done" ELSE "run"
              /\ log' = Append(log, [name |-> name, fired |-> fires,
                                     before |-> node, after |-> node'])
    /\ UNCHANGED <<original, used_def_chain, pure_expressions,
                   constant_expressions, lazyness_analysis, literals>>

\* return node
FS_Return ==
    /\ pc = "run"
    /\ names = {}
    /\ pc' = "done"
    /\ UNCHANGED <<original, node, raised, used_def_chain, pure_expressions,
                   constant_expressions, lazyness_analysis, literals, names, log>>

NextFS == FS_Step \/ FS_Return

SpecFS == InitFS /\ [][NextFS]_vars


\* The two tests of the claim, on the analyses.
Passing(x) ==
    /\ \/ (Cardinality(used_def_chain[x]) = 2 /\ lazyness_analysis[x] = 1)
       \/ (lazyness_analysis[x] # Inf /\ x \in literals)
    /\ Cardinality({o \in used_def_chain[x] : o.action = "D"}) = 1
    /\ {o \in used_def_chain[x] : o.action = "UD"} = {}
    /\ \A o \in used_def_chain[x] : o.action = "D" => o.ctx # "Param"

Assigns(tree) == {m \in NodeSet(tree) : m.type = "Assign"}

NameNodes(tree, x) == {m \in NodeSet(tree) : m.type = "Name" /\ m.name = x}

Defines(a, x) == \E t \in Range(a.targets) : t.type = "Name" /\ t.name = x

\* C8 as stated: the tree is rewritten for a name only if the eligibility
\* test and the structural guard both pass; for a name that fails one, no
\* occurrence of it and no assignment defining it is changed.
C8_FailingUntouched ==
    /\ \A i \in 1..Len(log) : log[i].after # log[i].before => Passing(log[i].name)
    /\ (pc = "done" /\ ~raised) =>
          \A x \in NamesOf(original) : ~Passing(x) =>
              /\ \A m \in NameNodes(original, x) : NodeAt(node, m.id) = m
              /\ \A a \in Assigns(original) : Defines(a, x) => NodeAt(node, a.id) = a

\* The identities inside the value of an assignment that defines a passing
\* name: the expression that is moved to the uses of that name.
ForwardedIds ==
    UNION {Ids(a.value) :
              a \in {y \in Assigns(original) :
                         \E x \in NamesOf(original) : Passing(x) /\ Defines(y, x)}}

\* C8 amended: the tree is rewritten for a name only if both tests pass;
\* a name that fails one is never removed from a target list and none of
\* its occurrences is replaced (an occurrence inside the value forwarded
\* for a passing name moves with that value), though an assignment that
\* defines it can lose a passing co-target or have a passing name's use in
\* its value replaced.
C8_OnlyPassingRewritten ==
    /\ \A i \in 1..Len(log) : log[i].after # log[i].before => Passing(log[i].name)
    /\ (pc = "done" /\ ~raised) =>
          LET O == NodeSet(original)
              N == NodeSet(node)
              failing == {x \in NamesOf(original) : ~Passing(x)}
              fwd == ForwardedIds
          IN  /\ \A m \in O : (m.type = "Name" /\ m.name \in failing) =>
                    (m.id \in fwd \/ m \in N)
              /\ \A a \in O : a.type = "Assign" =>
                    \A t \in Range(a.targets) :
                        (t.type = "Name" /\ t.name \in failing) =>
                            \E a2 \in N : /\ a2.type = "Assign"
                                           /\ a2.id = a.id
                                           /\ t \in Range(a2.targets)

\* C8 witness: one name passed both tests and the tree was rewritten for
\* it, another was eligible but failed the structural guard and the tree
\* was left alone, and an assignment defining a failing name changed.
C8_Witness ==
    /\ pc = "done" /\ ~raised
    /\ \E i \in 1..Len(log) : log[i].fired /\ log[i].after # log[i].before
    /\ \E i \in 1..Len(log) :
          /\ ~Passing(log[i].name)
          /\ Cardinality(used_def_chain[log[i].name]) = 2
          /\ lazyness_analysis[log[i].name] = 1
          /\ log[i].after = log[i].before
    /\ \E x \in NamesOf(original) : \E a \in Assigns(original) :
          ~Passing(x) /\ Defines(a, x) /\ NodeAt(node, a.id) # a

\* The number of places of a tree that hold a node of identity id.
Count(tree, id) ==
    LET ns == Nodes(tree) IN Cardinality({i \in 1..Len(ns) : ns[i].id = id})

\* No attribute that must hold a node is missing.
NothingMissing(tree) ==
    \A m \in NodeSet(tree) : \A k \in 1..Len(Fields(m.type)) :
        LET f == Fields(m.type)[k]
        IN  (~IsListField(f) /\ m.type \notin {"Return", "Yield"}) => ~IsNone(m[f])

\* C10: whenever both tests pass for a name, after its iteration every U
\* occurrence holds the value of the assignment whose targets hold the D
\* occurrence (never a missing node, wherever the D occurrence is and in
\* whatever order the occurrences are met), the name is removed from that
\* target list, an assignment of one target is replaced by one Pass, and
\* every statement list keeps its length.
C10_UsesReplaced ==
    \A i \in 1..Len(log) : log[i].fired =>
        LET x == log[i].name
            before == log[i].before
            after == log[i].after
            U == {o.id : o \in get(used_def_chain[x], "U")}
            D == (CHOOSE o \in get(used_def_chain[x], "D") : TRUE).id
            holders == {a \in Assigns(before) : D \in {t.id : t \in Range(a.targets)}}
            uses == Cardinality({k \in 1..Len(Nodes(before)) : Nodes(before)[k].id \in U})
        IN  /\ ~raised
            /\ NothingMissing(after)
            /\ \A u \in U : Count(after, u) = 0
            /\ Count(after, D) = 0
            /\ Cardinality(holders) = 1
            /\ \A a \in holders :
                  /\ Count(after, a.value.id)
                        = Count(before, a.value.id) + uses
                            - (IF Len(a.targets) = 1 THEN 1 ELSE 0)
                  /\ IF Len(a.targets) = 1
                     THEN NodeAt(after, a.id) = NoneNode
                          /\ NodeAt(after, a.id \o <<0>>).type = "Pass"
                     ELSE NodeAt(after, a.id).targets
                            = SelectSeq(a.targets, LAMBDA t : t.id # D)
            /\ \A b \in Blocks(before) :
                  Len(NodeAt(after, b[1])[b[2]]) = Len(NodeAt(before, b[1])[b[2]])


\* Every node identity of a tree occurs at exactly one position.
IsTree(tree) ==
    LET ns == Nodes(tree)
    IN  \A i, j \in 1..Len(ns) : ns[i].id = ns[j].id => i = j

\* C11: the passes start from a tree in which no node has two parents, and
\* the tree they leave is still one in which every node identity occurs at
\* exactly one position: each use replaced by forward substitution holds
\* its own copy of the forwarded value, never the node another use or the
\* assignment holds.
C11_TreeOwnership == IsTree(original) => IsTree(node)

=============================================================================
